---------------------------- MODULE Spec2Model ----------------------------
(***************************************************************************)
(* Model of plugins/modules/report.py (snapshot report module): the server *)
(* filter loop and the per-server snapshot aggregation loop of main().     *)
(*                                                                         *)
(* Python values are encoded as follows.                                   *)
(*   - None is the string "None"; a key that is absent from a dict is the  *)
(*     string "missing"; a nested dict whose content is not read further   *)
(*     is the string "dict".                                               *)
(*   - A server is a record: id, snapshotService (missing, None or dict),  *)
(*     replicationTargetDatacenterId, servicePlan, state (the fields of    *)
(*     the snapshotService dict), guest ("missing", "None" or "dict"),     *)
(*     operatingSystem (of the guest dict), family.  The server's name is  *)
(*     copied wherever its id is copied and is not modelled separately.    *)
(*   - A snapshot is a record: state, type, replica, startTime.  Its id,   *)
(*     consistencyLevel and indexState are only copied into the failed     *)
(*     snapshot record and are not modelled.                               *)
(*   - startTime is an integer 1..MaxTime standing for a sortable          *)
(*     timestamp; greater means later.                                     *)
(*   - client.list_snapshot(id) answers with source[id]: a record whose    *)
(*     kind is "list" (with the snapshots), "None", or "raise" (an         *)
(*     NTTMCPAPIException).                                                *)
(***************************************************************************)
EXTENDS Integers, Sequences, FiniteSets

VARIABLES
    servers,                  \* client.list_servers(...) result (input)
    source,                   \* what client.list_snapshot answers per server id (input)
    pc,                       \* "filter", "aggregate", "report", "done", "aborted"
    exception,                \* the uncaught exception that ended main(), or "none"
    i,                        \* index in servers_w_snapshots of the server being processed
    servers_w_snapshots,
    failed_servers,
    failed_snapshots,
    snapshot_report,
    server_count,
    server_w_snapshot_count,
    total_snapshots,
    total_replica_snapshots,
    snapshot_dates

vars == <<servers, source, pc, exception, i, servers_w_snapshots, failed_servers,
          failed_snapshots, snapshot_report, server_count, server_w_snapshot_count,
          total_snapshots, total_replica_snapshots, snapshot_dates>>

-----------------------------------------------------------------------------
(* Bounds of the model *)

MaxServers == 2
MaxTotalSnapshots == 2
MaxTime == 2
MaxHistory == 4

-----------------------------------------------------------------------------
(* Input domains *)

States == {"NORMAL", "FAILED"}
Types == {"SYSTEM", "CLIENT"}
Times == 1..MaxTime

\* Lexicographic order of the state strings, as Python compares str keys.
StateRank(st) == IF st = "FAILED" THEN 1 ELSE 2

\* The snapshots the source may return.  `type' is read only for a NORMAL
\* snapshot (line 221) and `startTime' only for a non-replica or a non-NORMAL
\* one (lines 206, 216); a field the code never reads is fixed.
Snapshots ==
    { s \in [state : States, type : Types, replica : BOOLEAN, startTime : Times] :
        /\ (s.state # "NORMAL" => s.type = "SYSTEM")
        /\ (s.replica /\ s.state = "NORMAL" => s.startTime = 1) }

\* Healthy local system snapshots, of any start time.
HealthySnapshots ==
    { s \in Snapshots : s.state = "NORMAL" /\ s.type = "SYSTEM" /\ ~s.replica }

NoneOutcome == [kind |-> "None", snapshots |-> <<>>]
RaiseOutcome == [kind |-> "raise", snapshots |-> <<>>]
ListOutcome(l) == [kind |-> "list", snapshots |-> l]

Server(id, svc, repl, guest, os) ==
    [id |-> id, snapshotService |-> svc, replicationTargetDatacenterId |-> repl,
     servicePlan |-> IF svc = "dict" THEN "ESSENTIALS" ELSE "missing",
     state |-> IF svc = "dict" THEN "NORMAL" ELSE "missing",
     guest |-> guest, operatingSystem |-> os,
     family |-> IF os = "dict" THEN "UNIX" ELSE "missing"]

\* A server with the snapshot service and every optional field present, and
\* one without the snapshot service.
PlainEligible(id) == Server(id, "dict", "None", "dict", "dict")
PlainIneligible(id) == Server(id, "None", "missing", "dict", "dict")
PlainShapes(id) == {PlainEligible(id), PlainIneligible(id)}

\* Every shape of server record: snapshot service absent or present, with or
\* without a replication target; guest and operatingSystem missing, null or present.
ServerShapes(id) ==
    { Server(id, sh[1], sh[2], sh[3], sh[4]) :
        sh \in { <<"None", "missing", "dict", "dict">>,
                 <<"missing", "missing", "dict", "dict">>,
                 <<"dict", "None", "dict", "dict">>,
                 <<"dict", "NA12", "dict", "dict">>,
                 <<"dict", "None", "missing", "missing">>,
                 <<"dict", "NA12", "dict", "missing">>,
                 <<"dict", "None", "None", "missing">>,
                 <<"dict", "None", "dict", "None">> } }


-----------------------------------------------------------------------------
(* Helpers *)

\* dict.get(key): None when the key is absent.
PyGet(value) == IF value = "missing" THEN "None" ELSE value

RECURSIVE SumSeq(_)
SumSeq(s) == IF s = <<>> THEN 0 ELSE Head(s) + SumSeq(Tail(s))

-----------------------------------------------------------------------------
(* Server filter, lines 178-188 *)

\* line 179
HasSnapshotService(server) == PyGet(server.snapshotService) # "None"

\* line 186: server.get('guest', {}).get('operatingSystem', {}).get('family').
\* The {} default applies only to an absent key: a guest or operatingSystem
\* that is present with value None has no .get and raises AttributeError.
FamilyRaises(server) ==
    \/ server.guest = "None"
    \/ server.guest = "dict" /\ server.operatingSystem = "None"

Family(server) ==
    IF server.guest = "dict" /\ server.operatingSystem = "dict"
    THEN PyGet(server.family) ELSE "None"

\* lines 180-187: the entry appended to servers_w_snapshots
EligibleEntry(server) ==
    [id |-> server.id,
     replication |-> PyGet(server.replicationTargetDatacenterId) # "None",
     plan |-> PyGet(server.servicePlan),
     state |-> PyGet(server.state),
     family |-> Family(server)]

\* lines 178-187 over a whole list: the entries appended, up to the first
\* server whose entry raises.
RECURSIVE FilterServers(_)
FilterServers(list) ==
    IF list = <<>> THEN [raised |-> FALSE, entries |-> <<>>]
    ELSE IF ~HasSnapshotService(Head(list)) THEN FilterServers(Tail(list))
    ELSE IF FamilyRaises(Head(list)) THEN [raised |-> TRUE, entries |-> <<>>]
    ELSE LET rest == FilterServers(Tail(list))
         IN  [raised |-> rest.raised,
              entries |-> <<EligibleEntry(Head(list))>> \o rest.entries]

-----------------------------------------------------------------------------
(* Snapshot classification, lines 200-227 *)

\* line 207
IsFailed(snapshot) == snapshot.state # "NORMAL"

\* A variant of IsLocal that forgets the else branch of line 207.
IsLocalAnyState(snapshot) == snapshot.type = "SYSTEM" /\ ~snapshot.replica

\* line 221 (in the else branch of line 207)
IsLocal(snapshot) ==
    ~IsFailed(snapshot) /\ snapshot.type = "SYSTEM" /\ ~snapshot.replica

\* line 223 (in the else branch of line 207)
IsRemote(snapshot) ==
    ~IsFailed(snapshot) /\ snapshot.type = "SYSTEM" /\ snapshot.replica

\* line 205
IsCandidate(snapshot) == ~snapshot.replica

\* lines 192-194, 208, 222, 224: the per-server counters after the inner loop
FailedCount(snapshots) == Cardinality({k \in 1..Len(snapshots) : IsFailed(snapshots[k])})
LocalCount(snapshots) == Cardinality({k \in 1..Len(snapshots) : IsLocal(snapshots[k])})
RemoteCount(snapshots) == Cardinality({k \in 1..Len(snapshots) : IsRemote(snapshots[k])})

\* lines 205-206: the (startTime, state) tuples appended, in list order
RECURSIVE Candidates(_)
Candidates(snapshots) ==
    IF snapshots = <<>> THEN <<>>
    ELSE (IF IsCandidate(Head(snapshots))
          THEN << <<Head(snapshots).startTime, Head(snapshots).state>> >>
          ELSE <<>>) \o Candidates(Tail(snapshots))

\* lines 209-219: the record appended to failed_snapshots
FailedSnapshotRecord(server, snapshot) ==
    [server_id |-> server.id, state |-> snapshot.state,
     start |-> snapshot.startTime, replica |-> snapshot.replica,
     family |-> server.family]

RECURSIVE FailedSnapshotRecords(_, _)
FailedSnapshotRecords(server, snapshots) ==
    IF snapshots = <<>> THEN <<>>
    ELSE (IF IsFailed(Head(snapshots))
          THEN <<FailedSnapshotRecord(server, Head(snapshots))>>
          ELSE <<>>) \o FailedSnapshotRecords(server, Tail(snapshots))

\* A variant of AddToTotal that assigns instead of accumulating.
AssignTotal(total, snapshots) == Len(snapshots)

\* line 201
AddToTotal(total, snapshots) == total + Len(snapshots)

\* line 227: list.sort(key=lambda tmp_tuple: tmp_tuple[1]) is a stable sort
\* on the second element of the tuple, the state.
SortKey(tmp_tuple) == StateRank(tmp_tuple[2])

RECURSIVE InsertSorted(_, _)
InsertSorted(sorted, x) ==
    IF sorted = <<>> THEN <<x>>
    ELSE IF SortKey(sorted[Len(sorted)]) <= SortKey(x) THEN Append(sorted, x)
    ELSE Append(InsertSorted(SubSeq(sorted, 1, Len(sorted) - 1), x),
                sorted[Len(sorted)])

RECURSIVE SortDates(_)
SortDates(dates) ==
    IF dates = <<>> THEN <<>>
    ELSE InsertSorted(SortDates(SubSeq(dates, 1, Len(dates) - 1)), dates[Len(dates)])

-----------------------------------------------------------------------------
(* One iteration of the per-server loop, lines 190-240, as a function of the
   accumulated lists and totals `acc', the server entry and the answer
   `outcome' of client.list_snapshot *)

\* The accumulated state of main() the loop reads and writes.
Acc ==
    [failed_servers |-> failed_servers, failed_snapshots |-> failed_snapshots,
     snapshot_report |-> snapshot_report, total_snapshots |-> total_snapshots,
     total_replica_snapshots |-> total_replica_snapshots,
     snapshot_dates |-> snapshot_dates, exception |-> exception]

\* lines 133-142
EmptyAcc ==
    [failed_servers |-> <<>>, failed_snapshots |-> <<>>, snapshot_report |-> <<>>,
     total_snapshots |-> 0, total_replica_snapshots |-> 0, snapshot_dates |-> <<>>,
     exception |-> "none"]

\* lines 228-238.  The dict is built before it is appended: 'last' pops the
\* last tuple of snapshot_dates and 'last_state' pops the one before it.  A
\* pop from an empty list raises IndexError, which line 239 does not catch.
AppendReport(acc, server, snapshot_count, server_failed_snapshots, local_snapshot, remote_snapshot) ==
    LET dates == acc.snapshot_dates
        n == Len(dates)
    IN  IF n = 0 THEN [acc EXCEPT !.exception = "IndexError"]
        ELSE IF n = 1
        THEN [acc EXCEPT !.snapshot_dates = <<>>, !.exception = "IndexError"]
        ELSE [acc EXCEPT
                !.snapshot_dates = SubSeq(dates, 1, n - 2),
                !.snapshot_report = Append(@,
                    [id |-> server.id, replication |-> server.replication,
                     count |-> snapshot_count, failed |-> server_failed_snapshots,
                     local |-> local_snapshot, remote |-> remote_snapshot,
                     last |-> dates[n][1], last_state |-> dates[n - 1][2]])]

\* lines 239-240: client.list_snapshot raised NTTMCPAPIException
StepRaise(acc, server) ==
    [acc EXCEPT !.failed_servers =
        Append(@, [id |-> server.id, error |-> "NTTMCPAPIException"])]

\* lines 197-198, then lines 228-238 (which follow the if/else in the try body)
StepNone(acc, server) ==
    AppendReport(
        [acc EXCEPT !.failed_servers = Append(@, [id |-> server.id, error |-> "N/A"])],
        server, 0, 0, 0, 0)

\* lines 199-227, then lines 228-238
StepList(acc, server, snapshots) ==
    AppendReport(
        [acc EXCEPT
            !.total_snapshots = AddToTotal(@, snapshots),
            !.total_replica_snapshots = @ + RemoteCount(snapshots),
            !.failed_snapshots = @ \o FailedSnapshotRecords(server, snapshots),
            !.snapshot_dates = SortDates(@ \o Candidates(snapshots))],
        server, Len(snapshots), FailedCount(snapshots),
        LocalCount(snapshots), RemoteCount(snapshots))

Step(acc, server, outcome) ==
    IF outcome.kind = "raise" THEN StepRaise(acc, server)
    ELSE IF outcome.kind = "None" THEN StepNone(acc, server)
    ELSE StepList(acc, server, outcome.snapshots)

\* The whole loop over a list of server entries; it ends at the first
\* uncaught exception.
RECURSIVE Aggregate(_, _, _)
Aggregate(acc, entries, src) ==
    IF entries = <<>> \/ acc.exception # "none" THEN acc
    ELSE Aggregate(Step(acc, Head(entries), src[Head(entries).id]), Tail(entries), src)

-----------------------------------------------------------------------------
(* Initial states: the inputs of one run *)

\* Sequences of length n over set S
SeqsOfLen(S, n) == [1..n -> S]

\* The ways to split up to `total' snapshots over n servers: per server the
\* length of its list, -1 for None, -2 for a raised exception.
Lengths(n, total) ==
    { ls \in [1..n -> -2..total] :
        SumSeq([k \in 1..n |-> IF ls[k] > 0 THEN ls[k] ELSE 0]) <= total }

\* A source that answers each server with what `ls' and the snapshots `flat'
\* say: server k gets the next ls[k] snapshots of flat.
SourceOf(ls, flat) ==
    [k \in DOMAIN ls |->
        IF ls[k] = -2 THEN RaiseOutcome
        ELSE IF ls[k] = -1 THEN NoneOutcome
        ELSE LET before == SumSeq([j \in 1..(k - 1) |-> IF ls[j] > 0 THEN ls[j] ELSE 0])
             IN  ListOutcome(SubSeq(flat, before + 1, before + ls[k]))]

InitControl ==
    /\ pc = "filter"
    /\ exception = "none"
    /\ i = 1
    /\ servers_w_snapshots = <<>>
    /\ failed_servers = <<>>
    /\ failed_snapshots = <<>>
    /\ snapshot_report = <<>>
    /\ server_count = 0
    /\ server_w_snapshot_count = 0
    /\ total_snapshots = 0
    /\ total_replica_snapshots = 0
    /\ snapshot_dates = <<>>

\* The server lists of up to n servers; the server at position k has id k.
PlainServerLists(n) ==
    UNION { { l \in [1..len -> UNION {PlainShapes(k) : k \in 1..len}] :
                \A k \in 1..len : l[k].id = k } : len \in 0..n }

ShapedServerLists(n) ==
    UNION { { l \in [1..len -> UNION {ServerShapes(k) : k \in 1..len}] :
                \A k \in 1..len : l[k].id = k } : len \in 0..n }

\* Inputs: a server list of `Lists', and for its servers with the snapshot
\* service any answers holding up to `total' snapshots of `Kinds' altogether
\* (a server without the service is never asked: it gets None).
InitInputs(Lists, Kinds, total) ==
    \E list \in Lists :
      \E ls \in { l \in Lengths(Len(list), total) :
                    \A k \in 1..Len(list) : ~HasSnapshotService(list[k]) => l[k] = -1 } :
        \E flat \in SeqsOfLen(Kinds,
                      SumSeq([k \in 1..Len(list) |-> IF ls[k] > 0 THEN ls[k] ELSE 0])) :
          /\ servers = list
          /\ source = SourceOf(ls, flat)

OneSnapshot == {[state |-> "NORMAL", type |-> "SYSTEM", replica |-> FALSE, startTime |-> 1]}

\* Three families of inputs:
\*   - plain servers whose snapshot lists hold any snapshots, up to
\*     MaxTotalSnapshots altogether;
\*   - plain servers with longer histories, up to MaxHistory healthy local
\*     snapshots altogether;
\*   - servers of every shape, with lists of one kind of snapshot.
Init ==
    /\ InitControl
    /\ \/ InitInputs(PlainServerLists(MaxServers), Snapshots, MaxTotalSnapshots)
       \/ InitInputs(PlainServerLists(MaxServers), HealthySnapshots, MaxHistory)
       \/ InitInputs(ShapedServerLists(MaxServers), OneSnapshot, MaxTotalSnapshots)

-----------------------------------------------------------------------------
(* Actions *)

\* lines 175-188
FilterLoop ==
    /\ pc = "filter"
    /\ LET r == FilterServers(servers)
       IN  /\ servers_w_snapshots' = r.entries
           /\ server_count' = Len(servers)
           /\ IF r.raised
              THEN /\ pc' = "aborted"
                   /\ exception' = "AttributeError"
                   /\ server_w_snapshot_count' = server_w_snapshot_count
              ELSE /\ pc' = "aggregate"
                   /\ exception' = exception
                   /\ server_w_snapshot_count' = Len(r.entries)
    /\ UNCHANGED <<servers, source, i, failed_servers, failed_snapshots, snapshot_report,
                   total_snapshots, total_replica_snapshots, snapshot_dates>>

\* The state after one loop iteration that ended with accumulator `next'
Iterate(next) ==
    /\ failed_servers' = next.failed_servers
    /\ failed_snapshots' = next.failed_snapshots
    /\ snapshot_report' = next.snapshot_report
    /\ total_snapshots' = next.total_snapshots
    /\ total_replica_snapshots' = next.total_replica_snapshots
    /\ snapshot_dates' = next.snapshot_dates
    /\ exception' = next.exception
    /\ IF next.exception = "none"
       THEN pc' = pc /\ i' = i + 1
       ELSE pc' = "aborted" /\ i' = i
    /\ UNCHANGED <<servers, source, servers_w_snapshots, server_count,
                   server_w_snapshot_count>>

\* lines 190-196, 239-240: the next server's snapshot retrieval raises
ListSnapshotRaises ==
    /\ pc = "aggregate"
    /\ i <= Len(servers_w_snapshots)
    /\ source[servers_w_snapshots[i].id].kind = "raise"
    /\ Iterate(Step(Acc, servers_w_snapshots[i], source[servers_w_snapshots[i].id]))

\* lines 190-198, 228-238: the next server's snapshot retrieval returns None
ListSnapshotNone ==
    /\ pc = "aggregate"
    /\ i <= Len(servers_w_snapshots)
    /\ source[servers_w_snapshots[i].id].kind = "None"
    /\ Iterate(Step(Acc, servers_w_snapshots[i], source[servers_w_snapshots[i].id]))

\* lines 190-196, 199-238: the next server's snapshots are classified
ClassifySnapshots ==
    /\ pc = "aggregate"
    /\ i <= Len(servers_w_snapshots)
    /\ source[servers_w_snapshots[i].id].kind = "list"
    /\ Iterate(Step(Acc, servers_w_snapshots[i], source[servers_w_snapshots[i].id]))

\* lines 242-277: the loop is over; the lists and totals are handed to the templates
Report ==
    /\ pc = "aggregate"
    /\ i > Len(servers_w_snapshots)
    /\ pc' = "done"
    /\ UNCHANGED <<servers, source, exception, i, servers_w_snapshots, failed_servers,
                   failed_snapshots, snapshot_report, server_count,
                   server_w_snapshot_count, total_snapshots, total_replica_snapshots,
                   snapshot_dates>>

Next ==
    \/ FilterLoop
    \/ ListSnapshotRaises
    \/ ListSnapshotNone
    \/ ClassifySnapshots
    \/ Report

Spec == Init /\ [][Next]_vars

-----------------------------------------------------------------------------
(* Properties *)

Rows == {snapshot_report[k] : k \in 1..Len(snapshot_report)}

\* The input servers with the snapshot service, in input order
EligibleServers == SelectSeq(servers, HasSnapshotService)

RowsOf(id) == Cardinality({k \in 1..Len(snapshot_report) : snapshot_report[k].id = id})
FailuresOf(id) == Cardinality({k \in 1..Len(failed_servers) : failed_servers[k].id = id})
FailedSnapshotsOf(id) ==
    Cardinality({k \in 1..Len(failed_snapshots) : failed_snapshots[k].server_id = id})

\* The non-replica snapshots of the list the source returns for server id
NonReplica(id) ==
    {k \in 1..Len(source[id].snapshots) : ~source[id].snapshots[k].replica}

\* The positions in servers_w_snapshots the loop has worked on: those before
\* i, and i itself when its iteration ended in an uncaught exception.
Visited ==
    IF pc = "filter" THEN {}
    ELSE IF exception = "IndexError" THEN 1..i
    ELSE 1..(i - 1)

RowCounts == [k \in 1..Len(snapshot_report) |-> snapshot_report[k].count]

\* C1: when the loop is over, every eligible server is in exactly one of
\* snapshot_report and failed_servers, so the two lengths add up to the
\* number of eligible servers.
PartitionInvariant ==
    pc = "done" =>
        /\ \A k \in 1..Len(EligibleServers) :
              RowsOf(EligibleServers[k].id) + FailuresOf(EligibleServers[k].id) = 1
        /\ Len(snapshot_report) + Len(failed_servers) = Len(EligibleServers)

\* C2: nothing that happens while one server is processed (a failed
\* retrieval, an empty list, few or no non-replica snapshots) ends the run
\* before the remaining servers are processed.
PartialFailureNonFatal == ~(pc = "aborted" /\ exception = "IndexError")

\* C3: the row of a server whose list holds a non-replica snapshot has as
\* `last' the greatest startTime among the server's non-replica snapshots and
\* as `last_state' the state of a non-replica snapshot with that startTime.
MostRecentCorrect ==
    \A r \in Rows :
        (source[r.id].kind = "list" /\ NonReplica(r.id) # {}) =>
            LET snaps == source[r.id].snapshots
            IN  /\ \A k \in NonReplica(r.id) : snaps[k].startTime <= r.last
                /\ \E k \in NonReplica(r.id) :
                      snaps[k].startTime = r.last /\ snaps[k].state = r.last_state

\* C4: the candidate list a server's iteration starts from holds no
\* (startTime, state) tuple of a server processed before it.
PerServerIsolation ==
    (pc = "aggregate" /\ i <= Len(servers_w_snapshots)) => snapshot_dates = <<>>

\* C5: a server whose list was retrieved and holds no non-replica snapshot
\* gets a row whose `last' and `last_state' are no timestamp and no state,
\* and its iteration raises nothing.
AbsentMostRecent ==
    \A k \in Visited :
        LET id == servers_w_snapshots[k].id
        IN  (source[id].kind = "list" /\ NonReplica(id) = {}) =>
                /\ exception = "none"
                /\ \E r \in Rows :
                      r.id = id /\ r.last \notin Times /\ r.last_state \notin States

\* C6: the iteration of a server whose retrieval fails (None, or a raised
\* NTTMCPAPIException) appends one record with the server's id and error
\* "N/A" to failed_servers, appends no row, and leaves the totals and
\* failed_snapshots as they were.
RetrievalFailureRecorded ==
    [][(pc = "aggregate" /\ i <= Len(servers_w_snapshots)
            /\ source[servers_w_snapshots[i].id].kind # "list") =>
        /\ failed_servers' =
              Append(failed_servers, [id |-> servers_w_snapshots[i].id, error |-> "N/A"])
        /\ snapshot_report' = snapshot_report
        /\ total_snapshots' = total_snapshots
        /\ total_replica_snapshots' = total_replica_snapshots
        /\ failed_snapshots' = failed_snapshots]_vars

TotalConsistency ==
    pc = "done" =>
        /\ total_snapshots = SumSeq(RowCounts)
        /\ total_snapshots =
              SumSeq([k \in 1..Len(servers_w_snapshots) |->
                        IF RowsOf(servers_w_snapshots[k].id) = 0 THEN 0
                        ELSE Len(source[servers_w_snapshots[k].id].snapshots)])

\* A finished run with a failed server and a row, of another server, that
\* counts snapshots.
TotalConsistencyWitness ==
    /\ pc = "done"
    /\ failed_servers # <<>>
    /\ \E r \in Rows : r.count > 0 /\ RowsOf(r.id) = 1 /\ FailuresOf(r.id) = 0

\* C9: the filter raises for no server list, and servers_w_snapshots holds
\* exactly the input servers with a snapshotService, in input order.
ServerFilterTotal ==
    pc # "filter" =>
        /\ exception # "AttributeError"
        /\ Len(servers_w_snapshots) = Len(EligibleServers)
        /\ \A k \in 1..Len(EligibleServers) :
              servers_w_snapshots[k].id = EligibleServers[k].id

\* The outcome of a whole run over a server list with the source `src':
\* whether it completed, and the totals of the summary if it did.
RunOutcome(list, src) ==
    LET filtered == FilterServers(list)
        acc == Aggregate(EmptyAcc, filtered.entries, src)
    IN  IF filtered.raised \/ acc.exception # "none"
        THEN [completed |-> FALSE, servers |-> 0, snapshot_servers |-> 0,
              snapshot_count |-> 0, snapshot_replica_count |-> 0]
        ELSE [completed |-> TRUE, servers |-> Len(list),
              snapshot_servers |-> Len(filtered.entries),
              snapshot_count |-> acc.total_snapshots,
              snapshot_replica_count |-> acc.total_replica_snapshots]

Permutations(n) == {p \in [1..n -> 1..n] : \A a, b \in 1..n : p[a] = p[b] => a = b}

\* C10: a run over any permutation of the server list ends as this run ended
\* (completed or aborted) and with the same totals.
OrderIndependentTotals ==
    pc \in {"done", "aborted"} =>
        \A p \in Permutations(Len(servers)) :
            RunOutcome([k \in 1..Len(servers) |-> servers[p[k]]], source) =
                [completed |-> pc = "done",
                 servers |-> IF pc = "done" THEN server_count ELSE 0,
                 snapshot_servers |-> IF pc = "done" THEN server_w_snapshot_count ELSE 0,
                 snapshot_count |-> IF pc = "done" THEN total_snapshots ELSE 0,
                 snapshot_replica_count |->
                     IF pc = "done" THEN total_replica_snapshots ELSE 0]

=============================================================================
